---- MODULE Spec2Model ----
(***************************************************************************)
(* Model of convo-viewer: the App coordinator (task-list and conversation  *)
(* polling, user-initiated loads), the task-list merge of the polling      *)
(* effect, and the structural computations of ConversationView             *)
(* (toolUsesMissingResults, hiddenCount, filteredMessages).                *)
(***************************************************************************)
EXTENDS Integers, Sequences, FiniteSets, Bags, TLC

VARIABLES
    source,              \* App state: selected Source
    tasks,               \* App state: held task list
    selectedTask,        \* App state: selected task id, or NoTask (null)
    conversation,        \* App state: held conversation, or NoConv (null)
    loadingTasks,        \* App state
    loadingConversation, \* App state
    error,               \* App state: visible error message, or NoError (null)
    taskInterval,        \* the source captured by the task-list setInterval
    convInterval,        \* the (source, task) captured by the conversation setInterval
    inflight,            \* bag of fetches issued and not yet settled
    lastOp,              \* the handler that ran last
    mPrev,               \* merge harness: the held list before the last merge
    mIncoming,           \* merge harness: the polled payload
    mApplied,            \* merge harness: merges of mIncoming applied so far
    messages,            \* ConversationView prop: the conversation shown
    filterCondensed,     \* ConversationView state: the condensed-filter toggle
    nInput,              \* normalizeContent harness: the content passed
    nOutput              \* normalizeContent harness: how the call completed

appVars == <<source, tasks, selectedTask, conversation, loadingTasks,
             loadingConversation, error, taskInterval, convInterval, inflight, lastOp>>
mergeVars == <<mPrev, mIncoming, mApplied>>
viewVars == <<messages, filterCondensed>>
normVars == <<nInput, nOutput>>
vars == <<appVars, mergeVars, viewVars, normVars>>

----------------------------------------------------------------------------
(* Bounds and value domains *)

MaxInflight == 2
MaxList == 2
MaxApplied == 3
MaxMessages == 3
MaxBlocks == 2

Sources == {"nightly", "production"}
TaskIds == {"X", "Y"}
Timestamps == {1, 2, 3}
PolledTimestamps == {1, 2}

NoTask == "null"
NoError == "null"
NoConv == [source |-> "null", task |-> "null"]
NoInterval == [source |-> "null", task |-> "null"]

ErrLoadTasks == "Failed to load tasks. Make sure the server is running."
ErrNotFound == "Conversation not found. The task may have been deleted."
ErrLoadConversation == "Failed to load conversation"
ErrFileFormat == "Invalid file format. Expected an array of messages."
ErrParseFile == "Failed to parse JSON file."

(* what the chosen local file holds: a JSON array, another JSON value, no JSON *)
UploadedFiles == {"array", "object", "invalid"}

RECURSIVE SeqsUpTo(_, _)
SeqsUpTo(S, n) ==
    IF n = 0 THEN {<<>>}
    ELSE LET shorter == SeqsUpTo(S, n - 1)
         IN  shorter \cup {Append(s, x) : s \in {t \in shorter : Len(t) = n - 1}, x \in S}

Ids(list) == {list[i].id : i \in 1..Len(list)}

SortedDesc(list) ==
    \A i \in 1..Len(list) - 1 : list[i].timestamp >= list[i + 1].timestamp

DistinctIds(list) ==
    \A i, j \in 1..Len(list) : list[i].id = list[j].id => i = j

----------------------------------------------------------------------------
(* Array.prototype.sort((a, b) => b.timestamp - a.timestamp): a stable sort, *)
(* descending by timestamp, computed here as a stable insertion sort.       *)

RECURSIVE InsertDesc(_, _)
InsertDesc(sorted, t) ==
    IF sorted = <<>> THEN <<t>>
    ELSE IF Head(sorted).timestamp >= t.timestamp
         THEN <<Head(sorted)>> \o InsertDesc(Tail(sorted), t)
         ELSE <<t>> \o sorted

RECURSIVE SortDescFrom(_, _)
SortDescFrom(sorted, rest) ==
    IF rest = <<>> THEN sorted
    ELSE SortDescFrom(InsertDesc(sorted, Head(rest)), Tail(rest))

SortDesc(list) == SortDescFrom(<<>>, list)

(* data.find(t => t.id === id): the first match *)
FindIndex(data, id) ==
    IF \E j \in 1..Len(data) : data[j].id = id
    THEN CHOOSE j \in 1..Len(data) :
            /\ data[j].id = id
            /\ \A k \in 1..(j - 1) : data[k].id # id
    ELSE 0

(* Variants of the merge callback with one plausible slip each *)
MergeTasksReplacing(prevTasks, data) == SortDesc(data)

MergeTasksUnsorted(prevTasks, data) ==
    LET existingIds == Ids(prevTasks)
        newTasks == SelectSeq(data, LAMBDA t : t.id \notin existingIds)
    IN  IF Len(newTasks) = 0
        THEN SortDesc([i \in 1..Len(prevTasks) |->
                        LET j == FindIndex(data, prevTasks[i].id)
                        IN  IF j # 0
                            THEN [prevTasks[i] EXCEPT !.timestamp = data[j].timestamp]
                            ELSE prevTasks[i]])
        ELSE newTasks \o prevTasks

MergeTasksRefreshing(prevTasks, data) ==
    LET existingIds == Ids(prevTasks)
        newTasks == SelectSeq(data, LAMBDA t : t.id \notin existingIds)
    IN  SortDesc(newTasks \o [i \in 1..Len(prevTasks) |->
                        LET j == FindIndex(data, prevTasks[i].id)
                        IN  IF j # 0
                            THEN [prevTasks[i] EXCEPT !.timestamp = data[j].timestamp]
                            ELSE prevTasks[i]])

(* the callback without its existingIds filter *)
MergeTasksAppending(prevTasks, data) == SortDesc(data \o prevTasks)

(* the callback without its timestamp refresh *)
MergeTasksNeverRefreshing(prevTasks, data) ==
    LET existingIds == Ids(prevTasks)
        newTasks == SelectSeq(data, LAMBDA t : t.id \notin existingIds)
    IN  SortDesc(newTasks \o prevTasks)

(* the setTasks(prevTasks => ...) callback of the task-list polling effect *)
MergeTasks(prevTasks, data) ==
    LET existingIds == Ids(prevTasks)
        newTasks == SelectSeq(data, LAMBDA t : t.id \notin existingIds)
        updatedTasks ==
            [i \in 1..Len(prevTasks) |->
                LET j == FindIndex(data, prevTasks[i].id)
                IN  IF j # 0
                    THEN [prevTasks[i] EXCEPT !.timestamp = data[j].timestamp]
                    ELSE prevTasks[i]]
    IN  IF Len(newTasks) = 0
        THEN SortDesc(updatedTasks)
        ELSE SortDesc(newTasks \o prevTasks)

(* the preview text of the tasks of one corpus *)
PreviewOf(s) == IF s = "nightly" THEN "p" ELSE "q"

(* GET /api/tasks/:source: one entry per task directory of that corpus, sorted *)
(* descending by timestamp                                                    *)
DirectoryListings ==
    {l \in SeqsUpTo([id : TaskIds, timestamp : PolledTimestamps], Cardinality(TaskIds)) :
        DistinctIds(l) /\ SortedDesc(l)}

ServerTaskLists(s) ==
    {[i \in 1..Len(l) |-> [id |-> l[i].id, timestamp |-> l[i].timestamp,
                           firstMessage |-> PreviewOf(s)]] : l \in DirectoryListings}

----------------------------------------------------------------------------
(* Fetches *)

TaskFetch(kind, s) == [kind |-> kind, source |-> s, task |-> NoTask]
ConvFetch(kind, s, id) == [kind |-> kind, source |-> s, task |-> id]

Pending(kind) == {r \in BagToSet(inflight) : r.kind = kind}
Issue(r) == inflight (+) SetToBag({r})
Settle(r) == inflight (-) SetToBag({r})
CanIssue == BagCardinality(inflight) < MaxInflight


(* GET /api/task/:source/:id answers with the stored log of that task *)
ConversationOf(r) == [source |-> r.source, task |-> r.task]

(* the conversation polling effect, deps [selectedTask, source] *)
ConvIntervalFor(s, sel) ==
    IF sel = NoTask THEN NoInterval ELSE [source |-> s, task |-> sel]

----------------------------------------------------------------------------
(* App *)

(* the synchronous head of loadTasks() *)
LoadTasksStart(s) ==
    /\ loadingTasks' = TRUE
    /\ error' = NoError
    /\ selectedTask' = NoTask
    /\ conversation' = NoConv
    /\ convInterval' = NoInterval

AppInit ==
    /\ source \in Sources
    /\ tasks = <<>>
    /\ selectedTask = NoTask
    /\ conversation = NoConv
    /\ loadingTasks = TRUE
    /\ loadingConversation = FALSE
    /\ error = NoError
    /\ taskInterval = source
    /\ convInterval = NoInterval
    /\ inflight = SetToBag({TaskFetch("loadTasks", source)})
    /\ lastOp = "mount"

(* the Source <select> onChange, then the effects keyed on [source] *)
SwitchSource(s) ==
    /\ s # source
    /\ CanIssue
    /\ source' = s
    /\ LoadTasksStart(s)
    /\ taskInterval' = s
    /\ inflight' = Issue(TaskFetch("loadTasks", s))
    /\ lastOp' = "SwitchSource"
    /\ UNCHANGED <<tasks, loadingConversation>>

LoadTasksOk(r, data) ==
    /\ r \in Pending("loadTasks")
    /\ tasks' = data
    /\ loadingTasks' = FALSE
    /\ inflight' = Settle(r)
    /\ lastOp' = "LoadTasksOk"
    /\ UNCHANGED <<source, selectedTask, conversation, loadingConversation, error,
                   taskInterval, convInterval>>

LoadTasksFail(r) ==
    /\ r \in Pending("loadTasks")
    /\ error' = ErrLoadTasks
    /\ loadingTasks' = FALSE
    /\ inflight' = Settle(r)
    /\ lastOp' = "LoadTasksFail"
    /\ UNCHANGED <<source, tasks, selectedTask, conversation, loadingConversation,
                   taskInterval, convInterval>>

(* the task-list setInterval callback, up to its fetch *)
TaskPollTick ==
    /\ CanIssue
    /\ inflight' = Issue(TaskFetch("pollTasks", taskInterval))
    /\ lastOp' = "TaskPollTick"
    /\ UNCHANGED <<source, tasks, selectedTask, conversation, loadingTasks,
                   loadingConversation, error, taskInterval, convInterval>>

TaskPollOk(r, data) ==
    /\ r \in Pending("pollTasks")
    /\ tasks' = MergeTasks(tasks, data)
    /\ inflight' = Settle(r)
    /\ lastOp' = "TaskPollOk"
    /\ UNCHANGED <<source, selectedTask, conversation, loadingTasks,
                   loadingConversation, error, taskInterval, convInterval>>

(* !res.ok, or fetch / res.json() throwing into the empty catch *)
TaskPollFail(r) ==
    /\ r \in Pending("pollTasks")
    /\ inflight' = Settle(r)
    /\ lastOp' = "TaskPollFail"
    /\ UNCHANGED <<source, tasks, selectedTask, conversation, loadingTasks,
                   loadingConversation, error, taskInterval, convInterval>>

(* the conversation setInterval callback, up to its fetch *)
ConvPollTick ==
    /\ convInterval # NoInterval
    /\ CanIssue
    /\ inflight' = Issue(ConvFetch("pollConv", convInterval.source, convInterval.task))
    /\ lastOp' = "ConvPollTick"
    /\ UNCHANGED <<source, tasks, selectedTask, conversation, loadingTasks,
                   loadingConversation, error, taskInterval, convInterval>>

ConvPollOk(r) ==
    /\ r \in Pending("pollConv")
    /\ conversation' = ConversationOf(r)
    /\ inflight' = Settle(r)
    /\ lastOp' = "ConvPollOk"
    /\ UNCHANGED <<source, tasks, selectedTask, loadingTasks, loadingConversation,
                   error, taskInterval, convInterval>>

(* a poll failure handled the way loadConversation handles its own *)
ConvPollFailSurfaced(r) ==
    /\ r \in Pending("pollConv")
    /\ error' = ErrLoadConversation
    /\ inflight' = Settle(r)
    /\ lastOp' = "ConvPollFail"
    /\ UNCHANGED <<source, tasks, selectedTask, conversation, loadingTasks,
                   loadingConversation, taskInterval, convInterval>>

ConvPollFail(r) ==
    /\ r \in Pending("pollConv")
    /\ inflight' = Settle(r)
    /\ lastOp' = "ConvPollFail"
    /\ UNCHANGED <<source, tasks, selectedTask, conversation, loadingTasks,
                   loadingConversation, error, taskInterval, convInterval>>

(* a click on a TaskList button: loadConversation(taskId) up to its fetch *)
SelectTask(id) ==
    /\ ~loadingTasks
    /\ ~loadingConversation
    /\ id \in Ids(tasks)
    /\ CanIssue
    /\ loadingConversation' = TRUE
    /\ error' = NoError
    /\ selectedTask' = id
    /\ conversation' = NoConv
    /\ convInterval' = ConvIntervalFor(source, id)
    /\ inflight' = Issue(ConvFetch("loadConv", source, id))
    /\ lastOp' = "SelectTask"
    /\ UNCHANGED <<source, tasks, loadingTasks, taskInterval>>

LoadConversationOk(r) ==
    /\ r \in Pending("loadConv")
    /\ conversation' = ConversationOf(r)
    /\ loadingConversation' = FALSE
    /\ inflight' = Settle(r)
    /\ lastOp' = "LoadConversationOk"
    /\ UNCHANGED <<source, tasks, selectedTask, loadingTasks, error,
                   taskInterval, convInterval>>

(* the 404 branch returning past its finally block *)
LoadConversationNotFoundKeepingFlag(r) ==
    /\ r \in Pending("loadConv")
    /\ LoadTasksStart(r.source)
    /\ inflight' = Settle(r) (+) SetToBag({TaskFetch("loadTasks", r.source)})
    /\ lastOp' = "LoadConversationNotFound"
    /\ UNCHANGED <<source, tasks, taskInterval, loadingConversation>>

(* res.status === 404: setError, setSelectedTask(null), loadTasks(), finally *)
LoadConversationNotFound(r) ==
    /\ r \in Pending("loadConv")
    /\ LoadTasksStart(r.source)
    /\ loadingConversation' = FALSE
    /\ inflight' = Settle(r) (+) SetToBag({TaskFetch("loadTasks", r.source)})
    /\ lastOp' = "LoadConversationNotFound"
    /\ UNCHANGED <<source, tasks, taskInterval>>

(* the catch branch without its setSelectedTask(null) *)
LoadConversationFailKeepingSelection(r) ==
    /\ r \in Pending("loadConv")
    /\ error' = ErrLoadConversation
    /\ loadingConversation' = FALSE
    /\ inflight' = Settle(r)
    /\ lastOp' = "LoadConversationFail"
    /\ UNCHANGED <<source, tasks, selectedTask, conversation, loadingTasks,
                   taskInterval, convInterval>>

LoadConversationFail(r) ==
    /\ r \in Pending("loadConv")
    /\ error' = ErrLoadConversation
    /\ selectedTask' = NoTask
    /\ convInterval' = NoInterval
    /\ loadingConversation' = FALSE
    /\ inflight' = Settle(r)
    /\ lastOp' = "LoadConversationFail"
    /\ UNCHANGED <<source, tasks, conversation, loadingTasks, taskInterval>>

(* onClose with a polling effect that is not keyed on selectedTask *)
CloseConversationKeepingInterval ==
    /\ ~loadingConversation
    /\ conversation # NoConv
    /\ conversation' = NoConv
    /\ selectedTask' = NoTask
    /\ lastOp' = "CloseConversation"
    /\ UNCHANGED <<source, tasks, loadingTasks, loadingConversation, error,
                   taskInterval, convInterval, inflight>>

(* ConversationView onClose *)
CloseConversation ==
    /\ ~loadingConversation
    /\ conversation # NoConv
    /\ conversation' = NoConv
    /\ selectedTask' = NoTask
    /\ convInterval' = NoInterval
    /\ lastOp' = "CloseConversation"
    /\ UNCHANGED <<source, tasks, loadingTasks, loadingConversation, error,
                   taskInterval, inflight>>

UploadOp(file) ==
    CASE file = "array" -> "handleFileUpload(array)"
      [] file = "object" -> "handleFileUpload(object)"
      [] OTHER -> "handleFileUpload(invalid)"

(* the file <input> onChange. setLoading names no binding of this App (its  *)
(* state is loadingTasks / loadingConversation), so the call at the head of *)
(* the handler throws a ReferenceError: setError(null) is not reached, no   *)
(* FileReader is created and reader.onload never runs.                      *)
handleFileUpload(file) ==
    /\ file \in UploadedFiles
    /\ lastOp' = UploadOp(file)
    /\ UNCHANGED <<source, tasks, selectedTask, conversation, loadingTasks,
                   loadingConversation, error, taskInterval, convInterval, inflight>>

AppNext ==
    \/ \E s \in Sources : SwitchSource(s)
    \/ \E r \in Pending("loadTasks") : \E data \in ServerTaskLists(r.source) : LoadTasksOk(r, data)
    \/ \E r \in Pending("loadTasks") : LoadTasksFail(r)
    \/ TaskPollTick
    \/ \E r \in Pending("pollTasks") : \E data \in ServerTaskLists(r.source) : TaskPollOk(r, data)
    \/ \E r \in Pending("pollTasks") : TaskPollFail(r)
    \/ ConvPollTick
    \/ \E r \in Pending("pollConv") : ConvPollOk(r)
    \/ \E r \in Pending("pollConv") : ConvPollFail(r)
    \/ \E id \in TaskIds : SelectTask(id)
    \/ \E r \in Pending("loadConv") : LoadConversationOk(r)
    \/ \E r \in Pending("loadConv") : LoadConversationNotFound(r)
    \/ \E r \in Pending("loadConv") : LoadConversationFail(r)
    \/ CloseConversation

----------------------------------------------------------------------------
(* Idle values of the parts a specification does not exercise *)

AppIdle ==
    /\ source = "nightly"
    /\ selectedTask = NoTask
    /\ conversation = NoConv
    /\ loadingTasks = FALSE
    /\ loadingConversation = FALSE
    /\ error = NoError
    /\ taskInterval = "nightly"
    /\ convInterval = NoInterval
    /\ inflight = EmptyBag
    /\ lastOp = "mount"

MergeIdle ==
    /\ mPrev = <<>>
    /\ mIncoming = <<>>
    /\ mApplied = 0

ViewIdle ==
    /\ messages = <<>>
    /\ filterCondensed = TRUE

(* no call of normalizeContent made yet *)
NotCalled == [called |-> FALSE, threw |-> FALSE, blocks |-> <<>>]

NormIdle ==
    /\ nInput = [kind |-> "string", value |-> ""]
    /\ nOutput = NotCalled

Init == AppInit /\ MergeIdle /\ ViewIdle /\ NormIdle

Next == AppNext /\ UNCHANGED <<mergeVars, viewVars, normVars>>

Spec == Init /\ [][Next]_vars

----------------------------------------------------------------------------
(* The App with every user-initiated fetch eventually resolving or          *)
(* rejecting: the awaited promise of each pending load settles, by one of  *)
(* its outcomes. The loading flags do not depend on what a listing holds,  *)
(* so the server here answers with listings whose timestamps stand still.  *)

SteadyListings == \A i \in 1..Len(tasks') : tasks'[i].timestamp = 1

LiveNext == Next /\ SteadyListings

SettleLoadTasks ==
    /\ \E r \in Pending("loadTasks") :
            \/ \E data \in ServerTaskLists(r.source) : LoadTasksOk(r, data)
            \/ LoadTasksFail(r)
    /\ SteadyListings
    /\ UNCHANGED <<mergeVars, viewVars, normVars>>

SettleLoadConversation ==
    /\ \E r \in Pending("loadConv") :
            \/ LoadConversationOk(r)
            \/ LoadConversationNotFound(r)
            \/ LoadConversationFail(r)
    /\ UNCHANGED <<mergeVars, viewVars, normVars>>

SpecLive ==
    /\ Init
    /\ [][LiveNext]_vars
    /\ WF_vars(SettleLoadTasks)
    /\ WF_vars(SettleLoadConversation)

----------------------------------------------------------------------------
(* The file upload on its own. handleFileUpload leaves every state of the  *)
(* App as it finds it and issues no fetch, so it is exercised from the     *)
(* settled states of the App: a task list loaded for the selected source,  *)
(* no fetch in flight, a task shown or none, and the error a failed        *)
(* conversation load leaves.                                               *)

UploadInit ==
    /\ source \in Sources
    /\ tasks \in ServerTaskLists(source)
    /\ selectedTask \in {NoTask} \cup Ids(tasks)
    /\ conversation = (IF selectedTask = NoTask THEN NoConv
                       ELSE [source |-> source, task |-> selectedTask])
    /\ error \in (IF selectedTask = NoTask /\ tasks # <<>>
                  THEN {NoError, ErrLoadConversation} ELSE {NoError})
    /\ loadingTasks = FALSE
    /\ loadingConversation = FALSE
    /\ taskInterval = source
    /\ convInterval = ConvIntervalFor(source, selectedTask)
    /\ inflight = EmptyBag
    /\ lastOp = (IF selectedTask # NoTask THEN "LoadConversationOk"
                 ELSE IF error # NoError THEN "LoadConversationFail" ELSE "LoadTasksOk")
    /\ MergeIdle
    /\ ViewIdle
    /\ NormIdle

UploadNext ==
    \E file \in UploadedFiles :
        handleFileUpload(file) /\ UNCHANGED <<mergeVars, viewVars, normVars>>

SpecUpload == UploadInit /\ [][UploadNext]_vars

----------------------------------------------------------------------------
(* The merge callback on its own: any held list, any payload, applied      *)
(* repeatedly as successive polls returning the same payload do.           *)

HeldLists ==
    SeqsUpTo([id : TaskIds, timestamp : Timestamps, firstMessage : {"p"}], MaxList)

Payloads ==
    SeqsUpTo([id : TaskIds, timestamp : Timestamps, firstMessage : {"q"}], MaxList)

MergeInit ==
    /\ tasks \in HeldLists
    /\ mIncoming \in Payloads
    /\ mPrev = <<>>
    /\ mApplied = 0
    /\ AppIdle
    /\ ViewIdle
    /\ NormIdle

Reconcile ==
    /\ mApplied < MaxApplied
    /\ mPrev' = tasks
    /\ tasks' = MergeTasks(tasks, mIncoming)
    /\ mApplied' = mApplied + 1
    /\ UNCHANGED <<mIncoming, viewVars, normVars>>
    /\ UNCHANGED <<source, selectedTask, conversation, loadingTasks, loadingConversation,
                   error, taskInterval, convInterval, inflight, lastOp>>

SpecMerge == MergeInit /\ [][Reconcile]_vars

----------------------------------------------------------------------------
(* ConversationView *)

Absent == "undefined"

(* JavaScript truthiness of an optional string field *)
Truthy(v) == v # Absent /\ v # ""

Block(type, id, toolUseId, text) ==
    [type |-> type, id |-> id, tool_use_id |-> toolUseId, text |-> text]

TextBlock(text) == Block("text", Absent, Absent, text)
ToolUse(id) == Block("tool_use", id, Absent, Absent)
ToolResult(id) == Block("tool_result", Absent, id, Absent)

(* message.content: a string, an array of blocks, or another JSON value *)
StringContent(text) == [kind |-> "string", value |-> text]
ArrayContent(blocks) == [kind |-> "array", value |-> blocks]
OtherContent(v) == [kind |-> "other", value |-> v]

JsonNull == [json |-> "null"]
JsonNumber(n) == [json |-> "number", n |-> n]
JsonObject == [json |-> "object"]
JsonUndefined == [json |-> "undefined"]
(* a parsed object with an own member named toString, as {"toString": 1} *)
JsonObjectOwnToString == [json |-> "object", toString |-> "number"]

(* String(content) of an object: OrdinaryToPrimitive finds toString not    *)
(* callable, Object.prototype.valueOf returns the object, and the          *)
(* conversion throws a TypeError                                           *)
StringThrows(v) == v.json = "object" /\ "toString" \in DOMAIN v

(* String(content) of a non-string, non-array JSON value *)
Stringify(v) ==
    CASE v.json = "null" -> "null"
      [] v.json = "undefined" -> "undefined"
      [] v.json = "number" -> <<"0", "1", "2", "3", "4", "5", "6", "7", "8", "9">>[v.n + 1]
      [] v.json = "object" /\ ~StringThrows(v) -> "[object Object]"

normalizeContent(content) ==
    IF content.kind = "string" THEN <<TextBlock(content.value)>>
    ELSE IF content.kind # "array" THEN <<TextBlock(Stringify(content.value))>>
    ELSE content.value

(* one call of normalizeContent: the blocks returned, or the throw *)
normalizeContentCompletion(content) ==
    IF content.kind = "other" /\ StringThrows(content.value)
    THEN [called |-> TRUE, threw |-> TRUE, blocks |-> <<>>]
    ELSE [called |-> TRUE, threw |-> FALSE, blocks |-> normalizeContent(content)]

Message(content, isSummary, cId, cParent, isTruncationMarker, tId, tParent) ==
    [content |-> content,
     isSummary |-> isSummary, condenseId |-> cId, condenseParent |-> cParent,
     isTruncationMarker |-> isTruncationMarker, truncationId |-> tId,
     truncationParent |-> tParent]

(* the two forEach loops of toolUsesMissingResults: message indices from 0, *)
(* toolUsePositions.set overwriting an earlier position of the same id      *)
RECURSIVE ScanBlocks(_, _, _)
ScanBlocks(blocks, messageIndex, acc) ==
    IF blocks = <<>> THEN acc
    ELSE LET block == Head(blocks)
             withResult ==
                IF block.type = "tool_result" /\ Truthy(block.tool_use_id)
                THEN [acc EXCEPT !.toolResultIds = @ \cup {block.tool_use_id}]
                ELSE acc
             withUse ==
                IF block.type = "tool_use" /\ Truthy(block.id)
                THEN [withResult EXCEPT
                        !.toolUsePositions = (block.id :> messageIndex) @@ @]
                ELSE withResult
         IN  ScanBlocks(Tail(blocks), messageIndex, withUse)

RECURSIVE ScanMessages(_, _, _)
ScanMessages(msgs, messageIndex, acc) ==
    IF msgs = <<>> THEN acc
    ELSE ScanMessages(Tail(msgs), messageIndex + 1,
                      ScanBlocks(normalizeContent(Head(msgs).content), messageIndex, acc))

(* the same scan with <= in place of < at hasMessageAfter *)
toolUsesMissingResultsNoExemption(msgs) ==
    LET scanned == ScanMessages(msgs, 0, [toolResultIds |-> {}, toolUsePositions |-> <<>>])
    IN  {toolUseId \in DOMAIN scanned.toolUsePositions :
            toolUseId \notin scanned.toolResultIds}

(* the same scan keeping the first position of an id, not the last *)
toolUsesMissingResultsFirstUse(msgs) ==
    LET scanned == ScanMessages(msgs, 0, [toolResultIds |-> {}, toolUsePositions |-> <<>>])
        lastMessageIndex == Len(msgs) - 1
        usedAt(i, id) ==
            \E k \in 1..Len(normalizeContent(msgs[i].content)) :
                /\ normalizeContent(msgs[i].content)[k].type = "tool_use"
                /\ normalizeContent(msgs[i].content)[k].id = id
    IN  {toolUseId \in DOMAIN scanned.toolUsePositions :
            /\ toolUseId \notin scanned.toolResultIds
            /\ \E i \in 1..Len(msgs) : usedAt(i, toolUseId) /\ i - 1 < lastMessageIndex}

(* the same scan never consulting toolResultIds *)
toolUsesMissingResultsIgnoringResults(msgs) ==
    LET scanned == ScanMessages(msgs, 0, [toolResultIds |-> {}, toolUsePositions |-> <<>>])
        lastMessageIndex == Len(msgs) - 1
    IN  {toolUseId \in DOMAIN scanned.toolUsePositions :
            scanned.toolUsePositions[toolUseId] < lastMessageIndex}

(* the same scan run over the rendered view instead of the messages prop *)
toolUsesMissingResultsOfView(msgs) ==
    LET summaryIds == {msgs[i].condenseId : i \in {j \in 1..Len(msgs) :
                            msgs[j].isSummary /\ Truthy(msgs[j].condenseId)}}
        view == IF filterCondensed
                THEN SelectSeq(msgs, LAMBDA m :
                        ~(Truthy(m.condenseParent) /\ m.condenseParent \in summaryIds))
                ELSE msgs
        scanned == ScanMessages(view, 0, [toolResultIds |-> {}, toolUsePositions |-> <<>>])
        lastMessageIndex == Len(view) - 1
    IN  {toolUseId \in DOMAIN scanned.toolUsePositions :
            /\ toolUseId \notin scanned.toolResultIds
            /\ scanned.toolUsePositions[toolUseId] < lastMessageIndex}

toolUsesMissingResults(msgs) ==
    LET scanned == ScanMessages(msgs, 0, [toolResultIds |-> {}, toolUsePositions |-> <<>>])
        lastMessageIndex == Len(msgs) - 1
    IN  {toolUseId \in DOMAIN scanned.toolUsePositions :
            /\ toolUseId \notin scanned.toolResultIds
            /\ scanned.toolUsePositions[toolUseId] < lastMessageIndex}

(* the summary-id set without its isSummary test *)
existingSummaryIdsAnyCarrier(msgs) ==
    {msgs[i].condenseId : i \in {j \in 1..Len(msgs) : Truthy(msgs[j].condenseId)}}

existingSummaryIds(msgs) ==
    {msgs[i].condenseId : i \in {j \in 1..Len(msgs) :
                                    msgs[j].isSummary /\ Truthy(msgs[j].condenseId)}}

existingTruncationIds(msgs) ==
    {msgs[i].truncationId : i \in {j \in 1..Len(msgs) :
                                    msgs[j].isTruncationMarker /\ Truthy(msgs[j].truncationId)}}

(* the predicate of hiddenCount and, negated, of filteredMessages *)
Hides(msgs, m) ==
    \/ Truthy(m.condenseParent) /\ m.condenseParent \in existingSummaryIds(msgs)
    \/ Truthy(m.truncationParent) /\ m.truncationParent \in existingTruncationIds(msgs)

(* the count taken over the rendered view instead of the messages prop *)
hiddenCountOfView(msgs) ==
    LET view == IF filterCondensed THEN SelectSeq(msgs, LAMBDA m : ~Hides(msgs, m)) ELSE msgs
    IN  Len(SelectSeq(view, LAMBDA m : Hides(msgs, m)))

hiddenCount(msgs) == Len(SelectSeq(msgs, LAMBDA m : Hides(msgs, m)))

(* the filter without its truncation test *)
filteredMessagesCondenseOnly(msgs, filter) ==
    IF ~filter THEN msgs
    ELSE SelectSeq(msgs, LAMBDA m :
            ~(Truthy(m.condenseParent) /\ m.condenseParent \in existingSummaryIds(msgs)))

(* the filter exempting markers *)
filteredMessagesSparingMarkers(msgs, filter) ==
    IF ~filter THEN msgs
    ELSE SelectSeq(msgs, LAMBDA m :
            m.isSummary \/ m.isTruncationMarker \/ ~Hides(msgs, m))

(* the filter walking the chain: a parent counts only while the marker it *)
(* names is not itself hidden                                            *)
filteredMessagesSparingChained(msgs, filter) ==
    LET liveSummaryIds ==
            {msgs[i].condenseId : i \in {j \in 1..Len(msgs) :
                msgs[j].isSummary /\ Truthy(msgs[j].condenseId) /\ ~Hides(msgs, msgs[j])}}
        liveTruncationIds ==
            {msgs[i].truncationId : i \in {j \in 1..Len(msgs) :
                /\ msgs[j].isTruncationMarker /\ Truthy(msgs[j].truncationId)
                /\ ~Hides(msgs, msgs[j])}}
    IN  IF ~filter THEN msgs
        ELSE SelectSeq(msgs, LAMBDA m :
                /\ ~(Truthy(m.condenseParent) /\ m.condenseParent \in liveSummaryIds)
                /\ ~(Truthy(m.truncationParent) /\ m.truncationParent \in liveTruncationIds))

filteredMessages(msgs, filter) ==
    IF ~filter THEN msgs
    ELSE SelectSeq(msgs, LAMBDA m : ~Hides(msgs, m))

(* the filter button, rendered only while hiddenCount > 0 *)
ToggleFilter ==
    /\ hiddenCount(messages) > 0
    /\ filterCondensed' = ~filterCondensed
    /\ UNCHANGED messages

(* the conversation poll replacing the prop by a snapshot one message longer *)
AppendMessage(m) ==
    /\ Len(messages) < MaxMessages
    /\ messages' = Append(messages, m)
    /\ UNCHANGED filterCondensed

ViewFrame ==
    /\ UNCHANGED mergeVars
    /\ UNCHANGED appVars
    /\ UNCHANGED normVars

ViewInit ==
    /\ messages = <<>>
    /\ filterCondensed = TRUE
    /\ tasks = <<>>
    /\ AppIdle
    /\ MergeIdle
    /\ NormIdle

----------------------------------------------------------------------------
(* Conversations of tool calls *)

ToolIds == {"a", "b"}

ToolContents ==
    {StringContent("hi"), OtherContent(JsonNull), ArrayContent(<<>>),
     ArrayContent(<<ToolUse(Absent)>>), ArrayContent(<<ToolResult(Absent)>>)}
    \cup {ArrayContent(<<ToolUse(id)>>) : id \in ToolIds}
    \cup {ArrayContent(<<ToolResult(id)>>) : id \in ToolIds}
    \cup {ArrayContent(<<ToolUse("a"), ToolResult("a")>>),
          ArrayContent(<<TextBlock("t"), ToolUse("a"), ToolUse("b")>>)}

ToolMessages ==
    {Message(c, FALSE, Absent, parent, FALSE, Absent, Absent) :
        c \in ToolContents, parent \in {Absent, "s1"}}
    \cup {Message(StringContent("summary"), TRUE, "s1", Absent, FALSE, Absent, Absent)}

ToolsNext ==
    \/ \E m \in ToolMessages : AppendMessage(m) /\ ViewFrame
    \/ ToggleFilter /\ ViewFrame

SpecTools == ViewInit /\ [][ToolsNext]_vars

----------------------------------------------------------------------------
(* Conversations of condensation and truncation markers *)

MarkerIds == {"s1", "s2"}

CondenseMessages ==
    {Message(StringContent("m"), TRUE, id, parent, FALSE, Absent, Absent) :
        id \in MarkerIds \cup {Absent}, parent \in MarkerIds \cup {Absent}}
    \cup {Message(StringContent("m"), FALSE, id, parent, FALSE, Absent, Absent) :
            id \in {"s1", Absent}, parent \in MarkerIds \cup {Absent}}

TruncationMessages ==
    {Message(StringContent("m"), FALSE, Absent, Absent, isMarker, id, parent) :
        isMarker \in BOOLEAN, id \in {"s1", Absent}, parent \in {"s1", Absent}}

CrossMessages ==
    {Message(StringContent("m"), TRUE, "s2", Absent, FALSE, Absent, "s1"),
     Message(StringContent("m"), FALSE, Absent, "s1", TRUE, "s2", Absent),
     Message(StringContent("m"), FALSE, Absent, "s2", FALSE, Absent, "s1")}

MarkerMessages == CondenseMessages \cup TruncationMessages \cup CrossMessages

CondenseNext ==
    \/ \E m \in MarkerMessages : AppendMessage(m) /\ ViewFrame
    \/ ToggleFilter /\ ViewFrame

SpecCondense == ViewInit /\ [][CondenseNext]_vars

----------------------------------------------------------------------------
(* normalizeContent on its own: any content a parsed log can carry *)

NormBlocks ==
    {TextBlock("t"), TextBlock(""), ToolUse("a"), ToolUse(Absent),
     ToolResult("a"), ToolResult(Absent), Block("image", Absent, Absent, Absent)}

NormInputs ==
    {StringContent(text) : text \in {"", "hi", "null"}}
    \cup {ArrayContent(blocks) : blocks \in SeqsUpTo(NormBlocks, MaxBlocks)}
    \cup {OtherContent(v) : v \in {JsonNull, JsonUndefined, JsonNumber(0), JsonNumber(7),
                                   JsonObject, JsonObjectOwnToString}}

NormInit ==
    /\ nInput \in NormInputs
    /\ nOutput = NotCalled
    /\ tasks = <<>>
    /\ AppIdle
    /\ MergeIdle
    /\ ViewIdle

Normalize ==
    /\ ~nOutput.called
    /\ nOutput' = normalizeContentCompletion(nInput)
    /\ UNCHANGED <<nInput, appVars, mergeVars, viewVars>>

SpecNormalize == NormInit /\ [][Normalize]_vars

----------------------------------------------------------------------------
(* Claims about the App, checked under Spec *)

(* C1: while a task is selected, the held conversation is never another    *)
(* task's data: a response for X arriving after the selection moved to Y   *)
(* does not overwrite held state.                                          *)
C1_StaleConversationNeverHeld ==
    selectedTask # NoTask =>
        conversation = NoConv \/ conversation.task = selectedTask

(* a task-list fetch issued for another source than the selected one settles *)
StaleTaskListSettles ==
    \E r \in BagToSet(inflight) :
        /\ r.kind \in {"pollTasks", "loadTasks"}
        /\ r.source # source
        /\ inflight' = Settle(r)

(* C2: a task-list response (poll or load) issued for Source A that        *)
(* completes after the switch to Source B neither merges into nor replaces *)
(* the held task list.                                                     *)
C2_StaleTaskListIgnored == [][StaleTaskListSettles => tasks' = tasks]_vars

(* C6: the held task list is ordered by non-increasing timestamp in every  *)
(* reachable state, after the initial load and after any poll merges.      *)
C6_HeldListTimeOrdered == SortedDesc(tasks)

C6_Witness ==
    /\ lastOp = "TaskPollOk"
    /\ Len(tasks) = 2
    /\ tasks[1].timestamp > tasks[2].timestamp
    /\ tasks[1].firstMessage # tasks[2].firstMessage

(* C7: a background poll tick whose fetch fails changes nothing: task list, *)
(* conversation, selection, error message and both intervals are as before, *)
(* and the settled fetch leaves room for the next tick.                     *)
C7_PollFailureChangesNothing ==
    [][lastOp' \in {"TaskPollFail", "ConvPollFail"} =>
        /\ UNCHANGED <<source, tasks, selectedTask, conversation, error,
                       loadingTasks, loadingConversation>>
        /\ UNCHANGED <<taskInterval, convInterval>>
        /\ taskInterval' = source'
        /\ convInterval' = ConvIntervalFor(source', selectedTask')
        /\ CanIssue']_vars

C7_Witness ==
    /\ lastOp = "ConvPollFail"
    /\ selectedTask # NoTask
    /\ conversation = [source |-> source, task |-> selectedTask]
    /\ tasks # <<>>
    /\ error = NoError

----------------------------------------------------------------------------
(* Claims about the merge callback, checked under SpecMerge *)

(* C3: no id held before a poll merge is missing after it, whatever the    *)
(* payload omits.                                                          *)
C3_MergeKeepsKnownIds == mApplied >= 1 => Ids(mPrev) \subseteq Ids(tasks)

C3_Witness ==
    /\ mApplied = 1
    /\ mIncoming # <<>>
    /\ \E id \in Ids(mPrev) : id \notin Ids(mIncoming) /\ id \in Ids(tasks)

(* C4: merging the same payload a second time gives the list the first     *)
(* merge gave (same tasks, timestamps and order); stated here for the      *)
(* payloads the server sends, one entry per id and sorted descending.      *)
C4_MergeIdempotent ==
    (mApplied >= 2 /\ DistinctIds(mIncoming) /\ SortedDesc(mIncoming)) => tasks = mPrev

(* positions in incoming of the tasks whose id current does not hold *)
NewIndices(current, incoming) ==
    {j \in 1..Len(incoming) : \A i \in 1..Len(current) : current[i].id # incoming[j].id}

(* the n-th smallest member of a set of indices *)
NthOf(S, n) == CHOOSE j \in S : Cardinality({k \in S : k < j}) = n - 1

(* a held task with its timestamp taken from the first payload task of its id *)
RefreshedTask(t, incoming) ==
    LET matches == {j \in 1..Len(incoming) : incoming[j].id = t.id}
    IN  IF matches = {} THEN t
        ELSE [id |-> t.id, firstMessage |-> t.firstMessage,
              timestamp |-> incoming[NthOf(matches, 1)].timestamp]

(* the list the algorithm sorts *)
MergeBase(current, incoming) ==
    LET new == NewIndices(current, incoming)
        n == Cardinality(new)
    IN  IF new = {}
        THEN [i \in 1..Len(current) |-> RefreshedTask(current[i], incoming)]
        ELSE [i \in 1..(n + Len(current)) |->
                IF i <= n THEN incoming[NthOf(new, i)] ELSE current[i - n]]

(* where a stable descending sort puts element k of base *)
RankDesc(base, k) ==
    1 + Cardinality({j \in 1..Len(base) : base[j].timestamp > base[k].timestamp})
      + Cardinality({j \in 1..(k - 1) : base[j].timestamp = base[k].timestamp})

(* C5: the merge result is the specified one: with no new id, current with *)
(* matching timestamps refreshed; with new ids, the new tasks followed by  *)
(* current unchanged; either stable-sorted descending by timestamp.        *)
C5_MergeIsSpecifiedAlgorithm ==
    mApplied >= 1 =>
        LET base == MergeBase(mPrev, mIncoming)
        IN  /\ Len(tasks) = Len(base)
            /\ Len(tasks) = Len(mPrev) + Cardinality(NewIndices(mPrev, mIncoming))
            /\ \A k \in 1..Len(base) : tasks[RankDesc(base, k)] = base[k]

C5_Witness ==
    /\ mApplied = 1
    /\ NewIndices(mPrev, mIncoming) # {}
    /\ \E i \in 1..Len(mPrev), j \in 1..Len(mIncoming) :
            /\ mPrev[i].id = mIncoming[j].id
            /\ mPrev[i].timestamp < mIncoming[j].timestamp
            /\ mPrev[i] \in {tasks[k] : k \in 1..Len(tasks)}
    /\ tasks # MergeBase(mPrev, mIncoming)

----------------------------------------------------------------------------
(* Claims about toolUsesMissingResults, checked under SpecTools *)

(* the blocks a message carries as an array; a string carries no tool block *)
ArrayBlocks(m) == IF m.content.kind = "array" THEN m.content.value ELSE <<>>

ToolUseIdsIn(m) ==
    {ArrayBlocks(m)[k].id : k \in {n \in 1..Len(ArrayBlocks(m)) :
        ArrayBlocks(m)[n].type = "tool_use" /\ ArrayBlocks(m)[n].id # Absent}}

ToolResultIdsIn(m) ==
    {ArrayBlocks(m)[k].tool_use_id : k \in {n \in 1..Len(ArrayBlocks(m)) :
        ArrayBlocks(m)[n].type = "tool_result" /\ ArrayBlocks(m)[n].tool_use_id # Absent}}

AnsweredIds == UNION {ToolResultIdsIn(messages[i]) : i \in 1..Len(messages)}

(* C8: the missing-result set is exactly the tool_use ids that no          *)
(* tool_result of any message references and that stand in a message other *)
(* than the last (for an id used more than once, its last use); an         *)
(* unanswered tool_use of the final message is never reported, and zero or *)
(* one message give the empty set.                                         *)
C8_MissingResultsExact ==
    LET n == Len(messages)
        used == UNION {ToolUseIdsIn(messages[i]) : i \in 1..n}
        inLast == IF n = 0 THEN {} ELSE ToolUseIdsIn(messages[n])
    IN  /\ toolUsesMissingResults(messages) = (used \ AnsweredIds) \ inLast
        /\ toolUsesMissingResults(messages) \cap inLast = {}
        /\ n <= 1 => toolUsesMissingResults(messages) = {}

C8_Witness ==
    /\ Len(messages) = 3
    /\ toolUsesMissingResults(messages) = {"a"}
    /\ ToolUseIdsIn(messages[1]) = {"a"}
    /\ ToolUseIdsIn(messages[3]) = {"b"}
    /\ AnsweredIds = {}

(* the messages in which a tool_use of this id stands *)
UseIndices(id) == {i \in 1..Len(messages) : id \in ToolUseIdsIn(messages[i])}

LastUse(id) == CHOOSE i \in UseIndices(id) : \A j \in UseIndices(id) : j <= i

(* C20: for a tool_use id that occurs in more than one message only the    *)
(* last occurrence decides: the id is reported missing iff it is           *)
(* unanswered and its last occurrence is not in the final message, so an   *)
(* earlier unanswered occurrence is not flagged when the id recurs in the  *)
(* final message.                                                          *)
C20_LastOccurrenceDecides ==
    \A id \in ToolIds :
        Cardinality(UseIndices(id)) >= 2 =>
            (id \in toolUsesMissingResults(messages)
                <=> (id \notin AnsweredIds /\ LastUse(id) < Len(messages)))

C20_Witness ==
    /\ Len(messages) = 3
    /\ UseIndices("a") = {1, 3}
    /\ UseIndices("b") = {1, 2}
    /\ AnsweredIds = {}
    /\ toolUsesMissingResults(messages) = {"b"}

----------------------------------------------------------------------------
(* Claims about the condensed filter, checked under SpecCondense *)

(* message i names, by its parent pointer, a marker present in the conversation *)
Superseded(i) ==
    \/ /\ messages[i].condenseParent # Absent
       /\ \E j \in 1..Len(messages) :
            messages[j].isSummary /\ messages[j].condenseId = messages[i].condenseParent
    \/ /\ messages[i].truncationParent # Absent
       /\ \E j \in 1..Len(messages) :
            /\ messages[j].isTruncationMarker
            /\ messages[j].truncationId = messages[i].truncationParent

KeptIndices == {i \in 1..Len(messages) : ~Superseded(i)}

(* C9: with filtering enabled the view is the order-preserving subsequence *)
(* of the messages that are not superseded; with filtering disabled it is  *)
(* the full sequence.                                                      *)
C9_FilteredViewExact ==
    LET view == filteredMessages(messages, filterCondensed)
        kept == KeptIndices
    IN  IF filterCondensed
        THEN /\ Len(view) = Cardinality(kept)
             /\ \A k \in 1..Len(view) : view[k] = messages[NthOf(kept, k)]
        ELSE view = messages

C9_Witness ==
    /\ filterCondensed
    /\ Len(messages) = 3
    /\ messages[1].condenseParent = Absent /\ messages[1].truncationParent = Absent
    /\ messages[2].condenseParent = "s1" /\ ~messages[2].isSummary
    /\ messages[3].isSummary /\ messages[3].condenseId = "s1"
    /\ filteredMessages(messages, filterCondensed) = <<messages[1], messages[3]>>
    /\ hiddenCount(messages) = 1

IsMarker(m) == m.isSummary \/ m.isTruncationMarker

Shown == {filteredMessages(messages, filterCondensed)[k] :
            k \in 1..Len(filteredMessages(messages, filterCondensed))}

(* the parent pointer of a message names the id the message itself carries *)
SelfParented(m) ==
    \/ m.condenseParent # Absent /\ m.condenseParent = m.condenseId
    \/ m.truncationParent # Absent /\ m.truncationParent = m.truncationId

(* C10 as claimed: with filtering enabled a marker message is never        *)
(* dropped, even when its own parent pointer names another marker present. *)
C10_MarkersNeverDropped ==
    filterCondensed =>
        \A i \in 1..Len(messages) :
            (IsMarker(messages[i]) /\ ~SelfParented(messages[i])) => messages[i] \in Shown

(* C10 as amended: with filtering enabled a marker message is dropped      *)
(* exactly when its own condenseParent or truncationParent names a marker  *)
(* present in the conversation; no other marker is dropped.                *)
C10_MarkersDroppedOnlyByOwnParent ==
    filterCondensed =>
        LET shown == Shown
        IN  \A i \in 1..Len(messages) :
                IsMarker(messages[i]) => (messages[i] \notin shown <=> Superseded(i))

C10_Witness ==
    /\ filterCondensed
    /\ Len(messages) = 2
    /\ messages[1].isSummary /\ messages[1].condenseId = "s1"
    /\ messages[1].condenseParent = "s2"
    /\ messages[2].isSummary /\ messages[2].condenseId = "s2"
    /\ messages[2].condenseParent = Absent
    /\ filteredMessages(messages, filterCondensed) = <<messages[2]>>

(* C11: a message whose condenseParent is not the condenseId of an         *)
(* isSummary message present, and whose truncationParent is not the        *)
(* truncationId of an isTruncationMarker message present, is shown with    *)
(* the filter on or off and is not counted by hiddenCount; an id carried   *)
(* only by a non-marker, or by a marker of the other kind, hides nothing.  *)
C11_UnreferencedNeverHidden ==
    LET shown == Shown
        referencing == {i \in 1..Len(messages) : Superseded(i)}
    IN  /\ \A i \in 1..Len(messages) : i \notin referencing => messages[i] \in shown
        /\ hiddenCount(messages) <= Cardinality(referencing)

C11_Witness ==
    /\ filterCondensed
    /\ Len(messages) = 3
    /\ ~messages[1].isSummary /\ messages[1].condenseId = "s1"
    /\ messages[2].isTruncationMarker /\ messages[2].truncationId = "s1"
    /\ messages[3].condenseParent = "s1" /\ ~IsMarker(messages[3])
    /\ messages[3] \in Shown
    /\ hiddenCount(messages) = 0

----------------------------------------------------------------------------
(* Claims about selection, polling and errors of the App, checked under Spec *)

(* C12: every conversation poll fetch is issued for the task selected at   *)
(* the time of the tick, from the selected source: none is started for a   *)
(* task the selection has moved away from, and none while no task is       *)
(* selected.                                                               *)
C12_PollFetchOnlyForSelectedTask ==
    [][\A r \in BagToSet(inflight') :
        (r.kind = "pollConv" /\ CopiesIn(r, inflight') > CopiesIn(r, inflight)) =>
            /\ selectedTask # NoTask
            /\ r.task = selectedTask
            /\ r.source = source]_vars

C12_Witness ==
    /\ lastOp = "ConvPollTick"
    /\ selectedTask = "Y"
    /\ Pending("pollConv") = {ConvFetch("pollConv", source, "X"),
                              ConvFetch("pollConv", source, "Y")}

(* C13: once the conversation is closed or the Source switched, the held   *)
(* conversation stays empty until a task is selected again: it becomes     *)
(* non-empty only in a step that ends with a task selected.                *)
C13_ClearedConversationStaysEmpty ==
    [][(conversation = NoConv /\ conversation' # NoConv) => selectedTask' # NoTask]_vars

(* the task-list load issued for the selected Source settles *)
CurrentTaskLoadSettles ==
    \E r \in Pending("loadTasks") : r.source = source /\ inflight' = Settle(r)

(* C14: after a Source switch, once the task-list load for the new Source  *)
(* has settled, by success or by failure, the held task list holds no task *)
(* obtained from another Source.                                           *)
C14_NoTasksOfPreviousSource ==
    [][CurrentTaskLoadSettles =>
        \A i \in 1..Len(tasks') : tasks'[i].firstMessage = PreviewOf(source')]_vars

(* C15: when the handling of a not-found response to a user-initiated      *)
(* conversation load completes, an error message is visible, no task is    *)
(* selected and a task-list refresh has been started.                      *)
C15_NotFoundSurfaced ==
    lastOp = "LoadConversationNotFound" =>
        /\ error # NoError
        /\ selectedTask = NoTask
        /\ loadingTasks /\ Pending("loadTasks") # {}

(* C16: when a user-initiated conversation load fails for another reason   *)
(* than not-found, an error message is visible and no task is left         *)
(* selected.                                                               *)
C16_FailureRollsBackSelection ==
    lastOp = "LoadConversationFail" =>
        /\ error = ErrLoadConversation
        /\ selectedTask = NoTask
        /\ convInterval = NoInterval
        /\ ~loadingConversation

C16_Witness ==
    /\ lastOp = "LoadConversationFail"
    /\ source = taskInterval
    /\ tasks # <<>>
    /\ ~loadingTasks
    /\ conversation = NoConv
    /\ inflight = EmptyBag

(* C17: loading a local file that is not valid JSON, or is JSON but not an *)
(* array, surfaces the matching error message and leaves conversation,     *)
(* selection and task list as they were.                                   *)
C17_MalformedFileSurfaced ==
    [][(lastOp' \in {UploadOp("invalid"), UploadOp("object")}) =>
        /\ error' = (IF lastOp' = UploadOp("invalid") THEN ErrParseFile ELSE ErrFileFormat)
        /\ UNCHANGED <<conversation, selectedTask, tasks>>]_vars

(* the conversation a local file holding a JSON array gives *)
UploadedConversation == [source |-> "file", task |-> "null"]

(* C18: loading a local file that holds a JSON array replaces the held     *)
(* conversation by that array and clears the selection, without a fetch.   *)
C18_ArrayFileReplacesConversation ==
    [][lastOp' = UploadOp("array") =>
        /\ conversation' = UploadedConversation
        /\ selectedTask' = NoTask
        /\ inflight' = inflight]_vars

----------------------------------------------------------------------------
(* Claims about normalizeContent, checked under SpecNormalize *)

(* C19: normalizeContent is total and shape-preserving: a string gives     *)
(* exactly one text block carrying that string, an array is returned       *)
(* unchanged in its order, any other value gives exactly one text block    *)
(* carrying its stringification, and no input raises an error.             *)
C19_NormalizeTotalShapePreserving ==
    nOutput.called =>
        /\ ~nOutput.threw
        /\ nInput.kind = "string" => nOutput.blocks = <<TextBlock(nInput.value)>>
        /\ nInput.kind = "array" => nOutput.blocks = nInput.value
        /\ nInput.kind = "other" =>
                /\ Len(nOutput.blocks) = 1
                /\ nOutput.blocks[1].type = "text"
                /\ nOutput.blocks[1].text = Stringify(nInput.value)

----------------------------------------------------------------------------
(* Claims about the hidden count and chained markers, checked under SpecCondense *)

(* C21: the hidden count is the number of superseded messages of the        *)
(* unfiltered sequence whatever the toggle state, and equals the number of  *)
(* messages less the length of the view computed with the toggle enabled.   *)
C21_HiddenCountOfUnfiltered ==
    LET superseded == {i \in 1..Len(messages) : Superseded(i)}
    IN  /\ hiddenCount(messages) = Cardinality(superseded)
        /\ hiddenCount(messages) = Len(messages) - Len(filteredMessages(messages, TRUE))

C21_Witness ==
    /\ ~filterCondensed
    /\ Len(messages) = 3
    /\ hiddenCount(messages) = 2
    /\ Len(filteredMessages(messages, filterCondensed)) = 3
    /\ Len(filteredMessages(messages, TRUE)) = 1

(* message a names, by a parent pointer, the marker that message b is *)
Names(a, b) ==
    \/ /\ messages[b].isSummary
       /\ messages[a].condenseParent # Absent
       /\ messages[a].condenseParent = messages[b].condenseId
    \/ /\ messages[b].isTruncationMarker
       /\ messages[a].truncationParent # Absent
       /\ messages[a].truncationParent = messages[b].truncationId

(* message i names a marker that is itself superseded by another, later marker *)
Chained(i) ==
    \E j, k \in 1..Len(messages) :
        /\ i # j /\ i # k /\ j < k
        /\ Names(i, j)
        /\ Names(j, k)

(* C22 as claimed: a message whose parent pointer names a marker that is   *)
(* itself superseded by another, later marker present is not hidden.       *)
C22_ChainedReferenceShown ==
    filterCondensed =>
        LET shown == Shown
        IN  \A i \in 1..Len(messages) : Chained(i) => messages[i] \in shown

(* C22 as amended: superseding looks one hop only, at the marker a message *)
(* names itself: such a message is hidden whenever that marker is present, *)
(* also when the marker is itself superseded by another marker; whether    *)
(* the named marker is superseded changes nothing.                         *)
C22_ChainedReferenceHidden ==
    filterCondensed =>
        LET shown == Shown
        IN  \A i \in 1..Len(messages) : Chained(i) => messages[i] \notin shown

C22_Witness ==
    /\ filterCondensed
    /\ Len(messages) = 3
    /\ ~IsMarker(messages[1]) /\ messages[1].condenseParent = "s1"
    /\ messages[2].isSummary /\ messages[2].condenseId = "s1"
    /\ messages[2].condenseParent = "s2"
    /\ messages[3].isSummary /\ messages[3].condenseId = "s2"
    /\ messages[3].condenseParent = Absent
    /\ filteredMessages(messages, filterCondensed) = <<messages[3]>>

----------------------------------------------------------------------------
(* Claims about successive snapshots and the filter, checked under SpecTools *)

(* a poll replaces the conversation by a snapshot one message longer *)
SnapshotExtended == Len(messages') = Len(messages) + 1

(* the ids with a tool_use and a matching tool_result in the snapshot held *)
AnsweredUses == AnsweredIds \cap UNION {ToolUseIdsIn(messages[i]) : i \in 1..Len(messages)}

(* C23 as claimed: from one snapshot to the next, an id answered in the    *)
(* earlier snapshot is not reported missing in the later one, and an id    *)
(* reported missing stays reported unless a tool_result referencing it was *)
(* appended.                                                               *)
C23_MissingMonotoneUntilAnswered ==
    [][SnapshotExtended =>
        /\ AnsweredUses \cap toolUsesMissingResults(messages') = {}
        /\ \A id \in toolUsesMissingResults(messages) :
                id \notin AnsweredIds' => id \in toolUsesMissingResults(messages')]_vars

(* C23 as amended: an id answered in the earlier snapshot is not reported  *)
(* missing in the later one; an id reported missing stays reported unless  *)
(* a tool_result referencing it was appended or the appended message uses  *)
(* the id again, in which case it is not reported while that message is    *)
(* the last.                                                               *)
C23_MissingMonotoneUntilAnsweredOrReused ==
    [][SnapshotExtended =>
        LET appended == messages'[Len(messages')]
        IN  /\ AnsweredUses \cap toolUsesMissingResults(messages') = {}
            /\ \A id \in toolUsesMissingResults(messages) :
                    id \in toolUsesMissingResults(messages')
                        <=> (id \notin AnsweredIds' /\ id \notin ToolUseIdsIn(appended))]_vars

C23_Witness ==
    /\ Len(messages) = 3
    /\ toolUsesMissingResults(SubSeq(messages, 1, 2)) = {"a", "b"}
    /\ ToolResultIdsIn(messages[3]) = {}
    /\ ToolUseIdsIn(messages[3]) = {"a"}
    /\ toolUsesMissingResults(messages) = {"b"}

(* C24: the missing-result set is computed from the unfiltered             *)
(* conversation whatever the toggle: a tool_use answered only by a         *)
(* tool_result of a message the filter hides is not reported, and the last *)
(* message of the exemption is the last unfiltered message even when the   *)
(* filter hides it.                                                        *)
C24_MissingSetIgnoresFilter ==
    LET missing == toolUsesMissingResults(messages)
        n == Len(messages)
    IN  /\ \A i \in 1..n : Superseded(i) => ToolResultIdsIn(messages[i]) \cap missing = {}
        /\ (n > 0 /\ Superseded(n)) => ToolUseIdsIn(messages[n]) \cap missing = {}
        /\ \A id \in missing : LastUse(id) < n

C24_Witness ==
    /\ filterCondensed
    /\ Len(messages) = 3
    /\ ToolUseIdsIn(messages[1]) = {"a"} /\ ~Superseded(1)
    /\ ToolResultIdsIn(messages[2]) = {"a"} /\ Superseded(2)
    /\ messages[3].isSummary
    /\ \A k \in {1, 3} : ToolResultIdsIn(messages[k]) = {}
    /\ toolUsesMissingResults(messages) = {}

----------------------------------------------------------------------------
(* Further claims about the held task list *)

(* C25 (under Spec, whose responses hold each id at most once): in every   *)
(* reachable state, after any interleaving of loads and poll merges, the   *)
(* held task list holds each task id at most once.                         *)
C25_HeldIdsUnique == DistinctIds(tasks)

C25_Witness ==
    /\ lastOp = "TaskPollOk"
    /\ Len(tasks) = 2
    /\ tasks[1].firstMessage # tasks[2].firstMessage
    /\ tasks[1].id # tasks[2].id

(* C26 (under SpecMerge): merging one payload repeatedly reaches a fixed   *)
(* point after at most two applications: the third application returns    *)
(* the list the second returned, and from the second application on every  *)
(* held task whose id occurs in the payload carries the timestamp the      *)
(* payload gives that id (its first entry of that id).                     *)
C26_FixedPointAfterTwoMerges ==
    /\ mApplied >= 3 => tasks = mPrev
    /\ mApplied >= 2 =>
            \A i \in 1..Len(tasks) : tasks[i] = RefreshedTask(tasks[i], mIncoming)

C26_Witness ==
    /\ mApplied = 3
    /\ tasks = mPrev
    /\ \E i, k \in 1..Len(tasks) :
            /\ tasks[i].firstMessage = "p" /\ tasks[i].id \in Ids(mIncoming)
            /\ tasks[k].firstMessage = "q"

----------------------------------------------------------------------------
(* Claims about termination, checked under SpecLive *)

(* C27: with every fetch eventually resolving or rejecting, each           *)
(* user-initiated load eventually clears its loading flag on every path:   *)
(* loadingConversation set by loadConversation and loadingTasks set by     *)
(* loadTasks each lead to the flag being false again, so task selection is *)
(* not refused forever.                                                    *)
C27_LoadingFlagsCleared ==
    /\ loadingConversation ~> ~loadingConversation
    /\ loadingTasks ~> ~loadingTasks

C27_Witness ==
    /\ lastOp = "LoadConversationNotFound"
    /\ ~loadingConversation
    /\ loadingTasks
    /\ selectedTask = NoTask

====
